---- MODULE Spec2Model ----
(***************************************************************************)
(* A model of the forest-fire dashboard client: the top-level App store    *)
(* and its handleRegionSelect handler, the mock data generators, the       *)
(* SimulationPanel playback timer, the RiskAnalysis prediction fetch and   *)
(* the JSON export of the download handlers.                               *)
(*                                                                         *)
(* Numbers.  Math.random() yields r in [0,1); a draw is modelled by its    *)
(* value in thousandths (0..999).  Confidences and intensities are kept in *)
(* units of 1e-5, coordinates in units of 1e-5 degree, areas in tenths of  *)
(* a square kilometre, so that every product of the source is an integer.  *)
(***************************************************************************)
EXTENDS Integers, Sequences, FiniteSets, TLC

VARIABLES
    activeView,           \* App: activeView
    selectedRegion,       \* App: selectedRegion (NoRegion = null)
    isProcessing,         \* App: isProcessing
    processingSteps,      \* App: processingSteps, the last published snapshot
    predictionData,       \* App: predictionData (Null or a PredictionData)
    simulationData,       \* App: simulationData (Null or a SimulationData)
    simulationTimeStep,   \* App: simulationTimeStep
    isSimulationPlaying,  \* App: isSimulationPlaying
    simulationSpeed,      \* App: simulationSpeed, in halves (2 = 1x)
    tickTrail,            \* the values set by the latest consecutive timer ticks
    run,                  \* the invocations of handleRegionSelect, by number
    mockIn,               \* generators: the region and random stream in use
    riskZones,            \* generators: last result of generateMockRiskZones
    spreadData,           \* generators: last result of generateMockSpreadData
    localData,            \* RiskAnalysis: localData of the mounted instance
    chart,                \* RiskAnalysis: chartInstance and the Chart objects made
    effects,              \* RiskAnalysis: the runs of its fetch effect, by number
    download,             \* export: the blob handed to the browser by a download
    parsed,               \* export: the result of parsing that blob back
    leafletMap,           \* MapVisualization: leafletMap and the map objects made
    clickHandler,         \* MapVisualization: the click handler put on the map
    isDrawingMode,        \* MapVisualization: Point Analysis mode
    selectedPoint         \* MapVisualization: the point of the popup, or null

appVars == <<activeView, selectedRegion, isProcessing, processingSteps,
             predictionData, simulationData>>
playVars == <<simulationTimeStep, isSimulationPlaying, simulationSpeed, tickTrail>>
genVars == <<mockIn, riskZones, spreadData>>
raVars == <<localData, effects, chart>>
exportVars == <<download, parsed>>
mapVars == <<leafletMap, clickHandler, isDrawingMode, selectedPoint>>
sideVars == <<genVars, raVars, exportVars, mapVars>>
vars == <<appVars, playVars, run, sideVars>>

----------------------------------------------------------------------------
(* JavaScript values whose kind matters are tagged.                        *)

Null == [k |-> "null", v |-> 0]
Undefined == [k |-> "undefined", v |-> 0]
Num(n) == [k |-> "number", v |-> n]
Str(s) == [k |-> "string", v |-> s]
DateOf(ms) == [k |-> "date", v |-> ms]
Arr(s) == [k |-> "array", v |-> s]
Bool(b) == [k |-> "boolean", v |-> IF b THEN 1 ELSE 0]

\* JavaScript truthiness of a tagged value, as `||` tests it.
Truthy(x) ==
    CASE x.k = "null" -> FALSE
      [] x.k = "undefined" -> FALSE
      [] x.k = "number" -> x.v # 0
      [] x.k = "string" -> x.v # ""
      [] OTHER -> TRUE

\* a || b
OrElse(a, b) == IF Truthy(a) THEN a ELSE b

----------------------------------------------------------------------------
(* The region catalog of RegionSelector (two of its entries).              *)

NoRegion == [id |-> "", name |-> "", area |-> 0, center |-> <<0, 0>>]

Dehradun ==
    [id |-> "uttarakhand-dehradun", name |-> "Dehradun District",
     area |-> 3088, center |-> <<3031650, 7803220>>]

Shimla ==
    [id |-> "himachal-shimla", name |-> "Shimla District",
     area |-> 5131, center |-> <<3110480, 7717340>>]

mockRegions == {Dehradun, Shimla}

----------------------------------------------------------------------------
(* Math.random.  A stream of draws is fixed by a seed <<a, b>>: its n-th   *)
(* draw (n = 0, 1, ...) is RandVals[((a + b*n) % K) + 1].  The values sit  *)
(* on and next to the thresholds and at both ends of [0,1).                *)

RandVals == <<0, 1, 300, 301, 600, 601, 999>>

Seeds == (0 .. Len(RandVals) - 1) \X (0 .. Len(RandVals) - 1)

Random(seed, n) == RandVals[((seed[1] + seed[2] * n) % Len(RandVals)) + 1]

\* The stream that remains after n draws have been taken from seed.
Advance(seed, n) == <<(seed[1] + seed[2] * n) % Len(RandVals), seed[2]>>

----------------------------------------------------------------------------
(* generateMockRiskZones                                                   *)

NumZones == 25
HighThreshold == 600
ModerateThreshold == 300

RiskOf_Inclusive(rand) ==
    IF rand >= HighThreshold THEN "high"
    ELSE IF rand >= ModerateThreshold THEN "moderate"
    ELSE "low"

\* if (rand > 0.6) risk = 'high'; else if (rand > 0.3) ... else 'low'
RiskOf(rand) ==
    IF rand > HighThreshold THEN "high"
    ELSE IF rand > ModerateThreshold THEN "moderate"
    ELSE "low"

ZoneConfidence_Wide(r) == 65000 + r * 36

\* confidence: 0.65 + Math.random() * 0.35
ZoneConfidence(r) == 65000 + r * 35

\* centerLat + (Math.random() - 0.5) * 0.6
ZoneJitter(center, r) == center + (r - 500) * 60

\* One iteration of the loop body: four draws, in source order.
MakeZone(region, seed, i) ==
    LET rand == Random(seed, 4 * i)
    IN  [id |-> i,
         lat |-> ZoneJitter(region.center[1], Random(seed, 4 * i + 1)),
         lng |-> ZoneJitter(region.center[2], Random(seed, 4 * i + 2)),
         risk |-> RiskOf(rand),
         confidence |-> ZoneConfidence(Random(seed, 4 * i + 3))]

RECURSIVE ZoneLoop(_, _, _, _, _)
\* for (let i = 0; i < n; i++) zones.push(...)
ZoneLoop(region, seed, i, n, zones) ==
    IF i < n
    THEN ZoneLoop(region, seed, i + 1, n, Append(zones, MakeZone(region, seed, i)))
    ELSE zones

generateMockRiskZones_OffByOne(region, seed) ==
    ZoneLoop(region, seed, 1, NumZones, <<>>)

generateMockRiskZones(region, seed) ==
    ZoneLoop(region, seed, 0, NumZones, <<>>)

----------------------------------------------------------------------------
(* generateMockSpreadData                                                  *)

timeSteps == <<1, 2, 3, 6, 12>>

TimeStepSet == {timeSteps[j] : j \in 1 .. Len(timeSteps)}

PointsPerStep == 6

numPoints_Fixed(timeStep) == PointsPerStep

\* const numPoints = timeStep * 6
numPoints(timeStep) == timeStep * PointsPerStep

PointIntensity_Unshifted(r) == r * 80

\* intensity: Math.random() * 0.8 + 0.2
PointIntensity(r) == r * 80 + 20000

\* centerLat + (Math.random() - 0.5) * (timeStep * 0.12)
PointJitter(center, r, timeStep) == center + (r - 500) * timeStep * 12

MakePoint(region, seed, timeStep, n) ==
    [lat |-> PointJitter(region.center[1], Random(seed, n), timeStep),
     lng |-> PointJitter(region.center[2], Random(seed, n + 1), timeStep),
     intensity |-> PointIntensity(Random(seed, n + 2)),
     timestamp |-> timeStep]

\* for (let i = 0; i < numPoints; i++) points.push(...): the points pushed,
\* the i-th of them built from the draws n0 + 3 * i onwards.
PointLoop(region, seed, timeStep, n0) ==
    [p \in 1 .. numPoints(timeStep) |->
        MakePoint(region, seed, timeStep, n0 + 3 * (p - 1))]

RECURSIVE ForEachTimeStep(_, _, _, _, _)
\* [1, 2, 3, 6, 12].forEach(timeStep => { ...; spreadData[timeStep] = points })
\* j is the position in the array, n0 the number of draws taken so far.
ForEachTimeStep(region, seed, j, n0, spread) ==
    IF j <= Len(timeSteps)
    THEN LET timeStep == timeSteps[j]
             points == PointLoop(region, seed, timeStep, n0)
         IN  ForEachTimeStep(region, seed, j + 1, n0 + 3 * Len(points),
                             [t \in DOMAIN spread \cup {timeStep} |->
                                 IF t = timeStep THEN points ELSE spread[t]])
    ELSE spread

generateMockSpreadData(region, seed) ==
    ForEachTimeStep(region, seed, 1, 0, <<>>)

----------------------------------------------------------------------------
(* The state after construction: the useState initial values of App.      *)

InitApp ==
    /\ activeView = "dashboard"
    /\ selectedRegion = NoRegion
    /\ isProcessing = FALSE
    /\ processingSteps = <<>>
    /\ predictionData = Null
    /\ simulationData = Null

InitPlay ==
    /\ simulationTimeStep = 1
    /\ isSimulationPlaying = FALSE
    /\ simulationSpeed = 2
    /\ tickTrail = <<>>

InitRuns == run = <<>>

NotCalled == [done |-> FALSE, value |-> <<>>]

\* The objects a view has made with a rendering library: current is the
\* ref of the mounted instance (0 for null), live the objects made and not
\* yet destroyed, cleanup whether the last run of the effect returned a
\* cleanup function, peak the largest number of objects that were live at
\* once.
NoInstance == [current |-> 0, live |-> {}, cleanup |-> FALSE, peak |-> 0]

InitRiskAnalysis ==
    /\ localData = Null
    /\ effects = <<>>
    /\ chart = NoInstance

\* No click handler is registered.  A handler holds the isDrawingMode of
\* the render that made it; clicks counts the click events it was given.
NoHandler == [registered |-> FALSE, isDrawingMode |-> FALSE, clicks |-> 0]

InitMap ==
    /\ leafletMap = NoInstance
    /\ clickHandler = NoHandler
    /\ isDrawingMode = FALSE
    /\ selectedPoint = Null

NoDownload ==
    [filename |-> "", handler |-> "", type |-> "", data |-> Null, content |-> <<>>]

InitExport ==
    /\ download = NoDownload
    /\ parsed = Null

InitGenIdle ==
    /\ mockIn = [region |-> NoRegion, seed |-> <<0, 0>>]
    /\ riskZones = NotCalled
    /\ spreadData = NotCalled

----------------------------------------------------------------------------
(* The response of GET /predict, as axios hands it to handleRegionSelect.  *)
(* axios rejects on a transport failure and on a non-2xx status; otherwise *)
(* response.data is the parsed body, whatever fields it holds.             *)

Obj(fields) == [k |-> "object", v |-> fields]

FullBody(region) ==
    [ok |-> Undefined,
     region |-> Str(region.name),
     fire_prediction |-> Obj([confidence |-> Num(87000)]),
     simulation_result |->
        Obj([totalBurnedArea |-> Arr(<<40, 90, 150, 280, 460>>),
             spreadRate |-> Arr(<<18, 22, 27, 31, 38>>)])]

\* The bodies tried: complete; confidence absent; confidence 0; region
\* absent; the two sequences absent; sequences of another length; a body
\* without simulation_result; the empty body {}; the error body
\* {ok: false, detail}; and a complete body that says ok: false.
PredictBodies(region) ==
    LET full == FullBody(region)
    IN  { full,
          [full EXCEPT !.fire_prediction = Obj([confidence |-> Undefined])],
          [full EXCEPT !.fire_prediction = Obj([confidence |-> Num(0)])],
          [full EXCEPT !.region = Undefined],
          [full EXCEPT !.simulation_result =
              Obj([totalBurnedArea |-> Undefined, spreadRate |-> Undefined])],
          [full EXCEPT !.simulation_result =
              Obj([totalBurnedArea |-> Arr(<<40, 90, 150>>),
                   spreadRate |-> Arr(<<18, 22, 27, 31, 38>>)])],
          [full EXCEPT !.simulation_result = Undefined],
          [ok |-> Undefined, region |-> Undefined, fire_prediction |-> Undefined,
           simulation_result |-> Undefined],
          [ok |-> Bool(FALSE), region |-> Undefined, fire_prediction |-> Undefined,
           simulation_result |-> Undefined],
          [full EXCEPT !.ok = Bool(FALSE)] }

NoBody ==
    [ok |-> Undefined, region |-> Undefined, fire_prediction |-> Undefined,
     simulation_result |-> Undefined]

\* axios resolves with the body of a 2xx response and rejects when the
\* request fails in transit or the status is not 2xx.
PredictOutcomes(region) ==
    {[resolved |-> TRUE, reason |-> "", data |-> d] : d \in PredictBodies(region)}
        \cup {[resolved |-> FALSE, reason |-> why, data |-> NoBody] :
                 why \in {"Network Error", "Request failed with status code 500"}}

\* No response yet.
Pending == [resolved |-> FALSE, reason |-> "", data |-> NoBody]

\* Reading a property of undefined throws a TypeError inside the try block.
Throws(data) ==
    \/ data.fire_prediction.k = "undefined"
    \/ data.simulation_result.k = "undefined"

\* The instants new Date() may return (milliseconds).
Times == {86400123, 172800000}

\* The random streams tried when a run builds its results.
RunSeeds == {<<0, 1>>, <<4, 3>>}

DefaultConfidence == 90000

\* The collection a generator returns is fixed by its region argument and by
\* the random stream it draws from.  An object of the store records these two
\* in place of the collection; RiskZonesOf and SpreadDataOf give the
\* collection itself.
Generated(region, seed) == [region |-> region, seed |-> seed]

RiskZonesOf(prediction) ==
    generateMockRiskZones(prediction.riskZones.region, prediction.riskZones.seed)

SpreadDataOf(simulation) ==
    generateMockSpreadData(simulation.spreadData.region, simulation.spreadData.seed)

\* const prediction: PredictionData = { ... }
MakePrediction(region, data, seed, now) ==
    [region |-> data.region,
     timestamp |-> DateOf(now),
     riskZones |-> Generated(region, seed),
     confidence |-> OrElse(data.fire_prediction.v.confidence, Num(DefaultConfidence)),
     totalArea |-> region.area * 10,
     highRiskArea |-> region.area * 2,
     moderateRiskArea |-> region.area * 3,
     lowRiskArea |-> region.area * 5]

\* const simulation: SimulationData = { ... }; its draws follow the
\* 4 * 25 draws of generateMockRiskZones.
MakeSimulation(region, data, seed, now) ==
    [region |-> data.region,
     timestamp |-> DateOf(now),
     timeSteps |-> timeSteps,
     spreadData |-> Generated(region, Advance(seed, 4 * NumZones)),
     totalBurnedArea |-> OrElse(data.simulation_result.v.totalBurnedArea,
                                Arr(<<50, 100, 180, 300, 500>>)),
     spreadRate |-> OrElse(data.simulation_result.v.spreadRate,
                           Arr(<<20, 25, 30, 35, 40>>))]

----------------------------------------------------------------------------
(* The Chart of RiskAnalysis (chart effect, lines 64-147) and the Leaflet  *)
(* map of MapVisualization (init effect, lines 136-177).  React runs the   *)
(* cleanup an effect run returned before the next run of that effect and   *)
(* when the instance unmounts; a run that returns early returns none.      *)

\* instance.destroy() / map.remove()
Destroy(instance, id) == [instance EXCEPT !.live = @ \ {id}]

\* new Chart(...) / L.map(...), stored in the ref
Create(instance) ==
    LET alive == Cardinality(instance.live) + 1
        id == CHOOSE i \in 1 .. alive : i \notin instance.live
    IN  [instance EXCEPT !.current = id,
                         !.live = @ \cup {id},
                         !.peak = IF alive > @ THEN alive ELSE @]

\* The refs and effects of a newly mounted instance.
Fresh(instance) == [instance EXCEPT !.current = 0, !.cleanup = FALSE]

pd_LocalOnly == localData

\* const pd = localData || predictionData
pd == IF localData # Null THEN localData ELSE predictionData

ChartCleanup_Leak(instance) == instance

\* return () => { if (chartInstance.current) chartInstance.current.destroy() }
ChartCleanup(instance) ==
    IF instance.cleanup /\ instance.current # 0
    THEN Destroy(instance, instance.current)
    ELSE instance

\* A run of the chart effect for the given pd, after the cleanup of the
\* previous run: nothing when pd is null, otherwise the chart in the ref is
\* destroyed and a new one is made.
ChartEffect(instance, data) ==
    LET released == ChartCleanup(instance)
    IN  IF data = Null
        THEN [released EXCEPT !.cleanup = FALSE]
        ELSE LET cleared == IF released.current # 0
                            THEN Destroy(released, released.current)
                            ELSE released
             IN  [Create(cleared) EXCEPT !.cleanup = TRUE]

\* The first run of the chart effect of a new instance.
ChartMount(instance, data) == ChartEffect(Fresh(instance), data)

\* The instance unmounts: the cleanup runs, the ref is gone.
ChartUnmount(instance) == Fresh(ChartCleanup(instance))

\* return () => { if (leafletMap.current) { leafletMap.current.remove();
\*                                          leafletMap.current = null } }
MapCleanup(instance) ==
    IF instance.cleanup /\ instance.current # 0
    THEN [Destroy(instance, instance.current) EXCEPT !.current = 0]
    ELSE instance

\* The init effect of MapVisualization, run once per mount; ready means
\* that the map container is rendered and window.L is defined.
MapInit(instance, ready) ==
    IF ~ready
    THEN [instance EXCEPT !.cleanup = FALSE]
    ELSE [(IF instance.current = 0 THEN Create(instance) ELSE instance)
             EXCEPT !.cleanup = TRUE]

\* The map container is rendered only with a region selected.
MapReady(region, hasLeaflet) == region # NoRegion /\ hasLeaflet

\* A change of view from one view to another mounts MapVisualization when
\* the new view is the map (state from useState, then the init effect, whose
\* click handler closes over the isDrawingMode of that render) and unmounts
\* it when the old view was.
MapFollows(from, to, hasLeaflet) ==
    IF to = "map" /\ from # "map"
    THEN LET ready == MapReady(selectedRegion, hasLeaflet)
         IN  /\ leafletMap' = MapInit(Fresh(leafletMap), ready)
             /\ isDrawingMode' = FALSE
             /\ selectedPoint' = Null
             /\ clickHandler' = IF ready
                                THEN [registered |-> TRUE,
                                      isDrawingMode |-> isDrawingMode',
                                      clicks |-> 0]
                                ELSE NoHandler
    ELSE IF from = "map" /\ to # "map"
    THEN /\ leafletMap' = Fresh(MapCleanup(leafletMap))
         /\ isDrawingMode' = FALSE
         /\ selectedPoint' = Null
         /\ clickHandler' = NoHandler
    ELSE UNCHANGED mapVars

----------------------------------------------------------------------------
(* handleRegionSelect.  Each invocation is a run; run[r] holds its local   *)
(* state: where it is suspended (pc), its region argument, the loop        *)
(* variables i and progress, and its own steps array.  requests counts the *)
(* /predict requests it has issued; solo records that no other run was in  *)
(* progress at any time since it started; response is what its request     *)
(* settled with, and failed that it went through its catch block.          *)

MaxRuns == 2

StepNames ==
    << "Loading DEM data (30m resolution)",
       "Processing weather data",
       "Analyzing LULC data",
       "Calculating slope & aspect",
       "Running ML prediction model",
       "Generating fire spread simulation" >>

InitialSteps_None == <<>>

InitialSteps ==
    [j \in 1 .. Len(StepNames) |->
        [id |-> j, name |-> StepNames[j], status |-> "pending", progress |-> 0]]

ProgressIncrement == 25
ProgressLimit == 100

MarkProcessing_All(steps, i) ==
    [j \in DOMAIN steps |->
        IF steps[j].status = "pending"
        THEN [steps[j] EXCEPT !.status = "processing"]
        ELSE steps[j]]

MarkCompleted_Forgotten(steps, i) == steps

\* steps[i].status = 'processing'  (i counts from 0)
MarkProcessing(steps, i) == [steps EXCEPT ![i + 1].status = "processing"]

SetProgress_All(steps, i, progress) ==
    [j \in DOMAIN steps |-> [steps[j] EXCEPT !.progress = progress]]

\* steps[i].progress = progress
SetProgress(steps, i, progress) == [steps EXCEPT ![i + 1].progress = progress]

\* steps[i].status = 'completed'
MarkCompleted(steps, i) == [steps EXCEPT ![i + 1].status = "completed"]

ResetResults_Kept == UNCHANGED <<predictionData, simulationData>>

\* setPredictionData(null); setSimulationData(null)
ResetResults == predictionData' = Null /\ simulationData' = Null

\* Lines 57-72, up to the first await of the loop (or of the request when
\* there are no steps).
Start(region) ==
    /\ activeView = "select-region"
    /\ Len(run) < MaxRuns
    /\ selectedRegion' = region
    /\ isProcessing' = TRUE
    /\ ResetResults
    /\ activeView' = "dashboard"
    /\ processingSteps' = InitialSteps
    /\ run' = Append(
          [r \in 1 .. Len(run) |->
              IF run[r].pc # "done" THEN [run[r] EXCEPT !.solo = FALSE] ELSE run[r]],
          [pc |-> IF 0 < Len(InitialSteps) THEN "delay" ELSE "fetch",
           region |-> region,
           i |-> 0,
           progress |-> 0,
           steps |-> InitialSteps,
           requests |-> IF 0 < Len(InitialSteps) THEN 0 ELSE 1,
           solo |-> \A r \in 1 .. Len(run) : run[r].pc = "done",
           response |-> Pending,
           failed |-> FALSE])
    /\ UNCHANGED <<playVars, sideVars>>

\* The randomized delay of line 75 has elapsed: lines 76-77 and the entry
\* of the progress loop, up to the await of line 80.
DelayElapsed(r) ==
    /\ r \in 1 .. Len(run)
    /\ run[r].pc = "delay"
    /\ LET steps == MarkProcessing(run[r].steps, run[r].i)
       IN  /\ processingSteps' = steps
           /\ run' = [run EXCEPT ![r].steps = steps,
                                 ![r].progress = 0,
                                 ![r].pc = "tick"]
    /\ UNCHANGED <<activeView, selectedRegion, isProcessing, predictionData,
                   simulationData, playVars, sideVars>>

\* The 60 ms delay of line 80 has elapsed: lines 81-82 and progress += 25;
\* when the progress loop ends, lines 85-86 and i++, and when the step loop
\* ends the request of line 90 is issued.  The setProcessingSteps calls of
\* one continuation are batched: the last snapshot is the one published.
TickElapsed(r) ==
    /\ r \in 1 .. Len(run)
    /\ run[r].pc = "tick"
    /\ LET i == run[r].i
           stepped == SetProgress(run[r].steps, i, run[r].progress)
           progress == run[r].progress + ProgressIncrement
       IN  IF progress <= ProgressLimit
           THEN /\ processingSteps' = stepped
                /\ run' = [run EXCEPT ![r].steps = stepped,
                                      ![r].progress = progress]
           ELSE LET steps == MarkCompleted(stepped, i)
                    more == i + 1 < Len(steps)
                IN  /\ processingSteps' = steps
                    /\ run' = [run EXCEPT
                          ![r].steps = steps,
                          ![r].progress = progress,
                          ![r].i = i + 1,
                          ![r].pc = IF more THEN "delay" ELSE "fetch",
                          ![r].requests = IF more THEN @ ELSE @ + 1]
    /\ UNCHANGED <<activeView, selectedRegion, isProcessing, predictionData,
                   simulationData, playVars, sideVars>>

\* The request of line 90 has settled: lines 94-117 when it resolved and no
\* property read throws, the catch block of lines 118-120 otherwise; then
\* line 122.
PredictSettled(r, outcome, seed, now) ==
    /\ r \in 1 .. Len(run)
    /\ run[r].pc = "fetch"
    /\ IF outcome.resolved /\ ~Throws(outcome.data)
       THEN /\ predictionData' = MakePrediction(run[r].region, outcome.data, seed, now)
            /\ simulationData' = MakeSimulation(run[r].region, outcome.data, seed, now)
       ELSE UNCHANGED <<predictionData, simulationData>>
    /\ isProcessing' = FALSE
    /\ run' = [run EXCEPT ![r].pc = "done",
                          ![r].response = outcome,
                          ![r].failed = ~(outcome.resolved /\ ~Throws(outcome.data))]
    /\ UNCHANGED <<activeView, selectedRegion, processingSteps, playVars,
                   genVars, localData, effects, exportVars, mapVars>>
    /\ chart' = IF activeView = "risk-analysis" /\ pd' # pd
                THEN ChartEffect(chart, pd')
                ELSE chart

\* Sidebar: onViewChange(view)
\* for a view other than Risk Analysis (whose mounting and unmounting run the
\* fetch effect and its cleanup: OpenRiskAnalysis, LeaveRiskAnalysis).
Navigate(view) ==
    /\ activeView # view
    /\ activeView # "risk-analysis" /\ view # "risk-analysis"
    /\ activeView' = view
    /\ \E hasLeaflet \in BOOLEAN : MapFollows(activeView, view, hasLeaflet)
    /\ UNCHANGED <<selectedRegion, isProcessing, processingSteps, predictionData,
                   simulationData, playVars, run, genVars, raVars, exportVars>>

Init ==
    InitApp /\ InitPlay /\ InitRuns /\ InitGenIdle /\ InitRiskAnalysis /\ InitExport /\ InitMap

Next ==
    \/ Navigate("select-region")
    \/ \E region \in mockRegions : Start(region)
    \/ \E r \in 1 .. Len(run) : DelayElapsed(r)
    \/ \E r \in 1 .. Len(run) : TickElapsed(r)
    \/ \E r \in 1 .. Len(run) :
          \E seed \in RunSeeds, now \in Times :
              \E outcome \in PredictOutcomes(run[r].region) :
                  PredictSettled(r, outcome, seed, now)

Spec == Init /\ [][Next]_vars

\* Timers fire: a delay that has been scheduled elapses.  Nothing makes the
\* backend answer, so the settling of a request is not fair.
SpecFair ==
    /\ Spec
    /\ \A r \in 1 .. MaxRuns : WF_vars(DelayElapsed(r)) /\ WF_vars(TickElapsed(r))

AllCompleted(steps) ==
    /\ Len(steps) = 6
    /\ \A j \in 1 .. Len(steps) :
          steps[j].status = "completed" /\ steps[j].progress = 100

\* C1: the step animation of every run terminates (the run reaches the
\* request that follows the loop), and the list it publishes on leaving the
\* loop has exactly 6 entries, each 'completed' with progress 100.
C1_AnimationTerminatesAllCompleted ==
    /\ \A r \in 1 .. MaxRuns :
          [](Len(run) >= r => <>(Len(run) >= r /\ run[r].pc \in {"fetch", "done"}))
    /\ [][\A r \in 1 .. Len(run) :
            (run[r].pc = "tick" /\ run'[r].pc = "fetch")
                => /\ AllCompleted(processingSteps')
                   /\ processingSteps' = run'[r].steps]_vars

\* A run has left its loop and the published list is its all-completed one.
C1_Witness ==
    \E r \in 1 .. Len(run) :
        /\ run[r].pc = "fetch"
        /\ run[r].i = 6
        /\ processingSteps = run[r].steps
        /\ AllCompleted(processingSteps)

\* C2: within one run the steps complete in input order: a step is
\* 'processing' or 'completed' only when every earlier step is 'completed';
\* a completed step stays completed; and every change a run makes to its
\* steps is published.
C2_StepsCompleteInOrder ==
    /\ [](\A r \in 1 .. Len(run) :
            \A a, b \in 1 .. Len(run[r].steps) :
                (a < b /\ run[r].steps[b].status # "pending")
                    => run[r].steps[a].status = "completed")
    /\ [][\A r \in 1 .. Len(run) :
            /\ \A j \in 1 .. Len(run[r].steps) :
                  run[r].steps[j].status = "completed"
                      => run'[r].steps[j].status = "completed"
            /\ run'[r].steps # run[r].steps => processingSteps' = run'[r].steps]_vars

\* A run is in the middle of its list: one step completed, the next one
\* processing, a later one still pending.
C2_Witness ==
    \E r \in 1 .. Len(run) :
        /\ run[r].steps[2].status = "completed"
        /\ run[r].steps[3].status = "processing"
        /\ run[r].steps[3].progress = 50
        /\ run[r].steps[4].status = "pending"
        /\ processingSteps = run[r].steps

Started == Len(run') = Len(run) + 1

\* C14: in the state right after handleRegionSelect(region) starts,
\* predictionData and simulationData are null, selectedRegion is the region
\* passed in and isProcessing is true, whatever the store held before.
C14_StartResetsStore ==
    [][Started =>
          /\ predictionData' = Null
          /\ simulationData' = Null
          /\ selectedRegion' = run'[Len(run')].region
          /\ isProcessing']_vars

\* A run on Shimla had filled the store; a run on Dehradun has just started
\* and is at its first delay, the store is empty again.
C14_Witness ==
    /\ Len(run) = 2
    /\ run[1].pc = "done" /\ ~run[1].failed /\ run[1].region = Shimla
    /\ run[2].pc = "delay" /\ run[2].i = 0 /\ run[2].region = Dehradun
    /\ selectedRegion = Dehradun
    /\ isProcessing
    /\ predictionData = Null /\ simulationData = Null

\* The sequence has one entry per time step, so that
\* sequence[timeSteps.indexOf(step)] is defined for every step.
Aligned(sequence, steps) ==
    sequence.k = "array" /\ Len(sequence.v) = Len(steps)

\* C15: every SimulationData in the store has totalBurnedArea and spreadRate
\* sequences of the length of timeSteps (5).
C15_SequencesMatchTimeSteps ==
    simulationData # Null =>
        /\ Len(simulationData.timeSteps) = 5
        /\ Aligned(simulationData.totalBurnedArea, simulationData.timeSteps)
        /\ Aligned(simulationData.spreadRate, simulationData.timeSteps)

\* Every run started so far has ended.
AllSettled == Len(run) > 0 /\ \A r \in 1 .. Len(run) : run[r].pc = "done"

\* The results in the store were built by a run for the given region.
ResultsFor(region) ==
    /\ predictionData # Null /\ predictionData.riskZones.region = region
    /\ simulationData # Null /\ simulationData.spreadData.region = region

\* C11: a region selected while an earlier run is in progress supersedes
\* it: once all runs have settled, predictionData and simulationData are the
\* results of the run for the most recently selected region, or null if that
\* run failed; the response of the superseded run does not reach the store.
C11_LatestSelectionWins ==
    AllSettled =>
        LET latest == run[Len(run)]
        IN  /\ latest.region = selectedRegion
            /\ IF latest.failed
               THEN predictionData = Null /\ simulationData = Null
               ELSE ResultsFor(latest.region)

\* The request of a run failed: it was rejected (in transit, or with a
\* status that is not 2xx), or its body says ok: false.
FailureOutcome(response) ==
    ~response.resolved \/ response.data.ok = Bool(FALSE)

\* Run r ends in this step.
Ends(r) == run[r].pc = "fetch" /\ run'[r].pc = "done"

\* C12, at the /predict call site: when the request of a run fails in any
\* of the three ways, the failure is caught by the handler's catch block and
\* the run ends with predictionData and simulationData null.
C12_FailuresCaughtAndNull ==
    [][\A r \in 1 .. Len(run) :
          (Ends(r) /\ FailureOutcome(run'[r].response))
              => /\ run'[r].failed
                 /\ predictionData' = Null
                 /\ simulationData' = Null]_vars

\* C16: a run sets isProcessing to false only when it ends, and it ends only
\* with every one of its steps completed and its one request settled
\* (resolved or rejected); isProcessing never turns false in another way.
C16_ProcessingEndsAfterBoth ==
    /\ [][\A r \in 1 .. Len(run) :
            Ends(r) => /\ AllCompleted(run[r].steps)
                       /\ run[r].requests = 1
                       /\ run[r].response = Pending
                       /\ run'[r].response # Pending
                       /\ ~isProcessing']_vars
    /\ [][(isProcessing /\ ~isProcessing')
            => \E r \in 1 .. Len(run) : Ends(r)]_vars

\* A single run has ended after a rejected request: its six steps are
\* completed and isProcessing is false.
C16_Witness ==
    /\ Len(run) = 1
    /\ run[1].pc = "done"
    /\ ~run[1].response.resolved /\ run[1].response.reason = "Network Error"
    /\ AllCompleted(run[1].steps)
    /\ ~isProcessing

\* The shape of a step list in the middle of its animation: a prefix of
\* completed steps at 100, then at most one processing step, then pending
\* steps at 0.
Sequential(steps) ==
    /\ \A j \in DOMAIN steps :
          /\ steps[j].status \in {"pending", "processing", "completed"}
          /\ steps[j].progress \in {0, 25, 50, 75, 100}
          /\ steps[j].status = "completed" => steps[j].progress = 100
          /\ steps[j].status = "pending" => steps[j].progress = 0
    /\ Cardinality({j \in DOMAIN steps : steps[j].status = "processing"}) <= 1
    /\ \A j, k \in DOMAIN steps :
          j < k => \/ steps[j].status = "completed"
                   \/ steps[k].status = "pending"

\* C17: in every state the step list of a run, and the list on display, has
\* at most one step processing, the steps before it completed with progress
\* 100 and the steps after it pending with progress 0; progress is one of
\* 0, 25, 50, 75, 100 and never decreases within a run; no step has status
\* 'error'.
C17_StepsSequential ==
    /\ [](Sequential(processingSteps)
            /\ \A r \in 1 .. Len(run) : Sequential(run[r].steps))
    /\ [][\A r \in 1 .. Len(run) : \A j \in DOMAIN run[r].steps :
            run[r].steps[j].progress <= run'[r].steps[j].progress]_vars

\* The last step of a single run is processing at 75, the five before it
\* are completed at 100.
C17_Witness ==
    /\ Len(run) = 1
    /\ run[1].steps[6].status = "processing"
    /\ run[1].steps[6].progress = 75
    /\ \A j \in 1 .. 5 :
          run[1].steps[j].status = "completed" /\ run[1].steps[j].progress = 100
    /\ processingSteps = run[1].steps

\* The run is inside its step loop.
Animating(r) == run[r].pc \in {"delay", "tick"}

\* The request of the run can settle now.
CanSettle(r) ==
    ENABLED (\E seed \in RunSeeds, now \in Times :
                \E outcome \in PredictOutcomes(run[r].region) :
                    PredictSettled(r, outcome, seed, now))

\* C18, as stated: the request is not ordered relative to the animation, it
\* may settle while the steps are still being animated as well as after
\* they have finished.
C18_FetchUnordered ==
    \A r \in 1 .. Len(run) :
        (Animating(r) \/ run[r].pc = "fetch") => CanSettle(r)

\* C18, amended: the request follows the animation.  While a run is inside
\* its step loop it has issued no request and none can settle; a run that
\* has issued its request, or whose request has settled, has all six steps
\* completed.
C18_FetchFollowsAnimation ==
    \A r \in 1 .. Len(run) :
        /\ Animating(r) =>
              run[r].requests = 0 /\ run[r].response = Pending /\ ~CanSettle(r)
        /\ run[r].pc = "fetch" => CanSettle(r)
        /\ (run[r].requests > 0 \/ run[r].response # Pending)
              => AllCompleted(run[r].steps)

\* The request of a first run resolved after its six steps were completed;
\* a second run is in the middle of its animation and has sent nothing.
C18_Witness ==
    /\ Len(run) = 2
    /\ run[1].pc = "done" /\ run[1].response.resolved
    /\ AllCompleted(run[1].steps)
    /\ run[2].pc = "tick" /\ run[2].i = 3
    /\ run[2].requests = 0

\* C19, at the /predict call site: when the request of a run resolves (a 2xx
\* response) with a body that does not say ok: false, whatever fields the
\* body lacks, the run does not go through its catch block and stores a
\* non-null prediction and simulation.
C19_MissingFieldsDefaulted ==
    [][\A r \in 1 .. Len(run) :
          (Ends(r) /\ run'[r].response.resolved
                   /\ run'[r].response.data.ok # Bool(FALSE))
              => /\ ~run'[r].failed
                 /\ predictionData' # Null
                 /\ simulationData' # Null]_vars

\* The confidence the response of a run carries.
ResponseConfidence(response) == response.data.fire_prediction.v.confidence

\* C20, at the /predict call site: the confidence a successful run stores
\* is the confidence of its response when that is a number, 0 included, and
\* the default 0.9 exactly when the response has none.
C20_ConfidenceMapped ==
    [][\A r \in 1 .. Len(run) :
          (Ends(r) /\ ~run'[r].failed) =>
              LET confidence == ResponseConfidence(run'[r].response)
              IN  predictionData'.confidence =
                      IF confidence.k = "number"
                      THEN confidence
                      ELSE Num(DefaultConfidence)]_vars

\* C26: under overlapping runs, isProcessing = false implies that no run is
\* still animating its steps or awaiting its request.
C26_IdleMeansNoRunInProgress ==
    ~isProcessing => \A r \in 1 .. Len(run) : run[r].pc = "done"

\* A run has published a snapshot of its steps in this step.
Publishes(r) == run'[r].steps # run[r].steps

\* C27: once a newer run has started (and published its all-pending list),
\* no older run publishes a snapshot of its steps any more, and no step of
\* the displayed list goes back in status or progress.
C27_OnlyNewestRunPublishes ==
    /\ [][\A r \in 1 .. Len(run) : Publishes(r) => r = Len(run)]_vars
    /\ [][(~Started /\ processingSteps # <<>>) =>
            \A j \in DOMAIN processingSteps :
                processingSteps[j].progress <= processingSteps'[j].progress]_vars

----------------------------------------------------------------------------
(* SimulationPanel: the playback timer and the playback controls.  A view's *)
(* component is mounted exactly while activeView names it.  The controls   *)
(* are rendered only when simulationData is present.                       *)

Views ==
    {"dashboard", "select-region", "risk-analysis", "simulation", "map",
     "download", "settings"}

\* The slider of the panel: 0.5 to 3 in steps of 0.5, here in halves.
Speeds == 1 .. 6

\* The number of latest consecutive ticks whose values are remembered.
MaxTrail == 5

\* Array.prototype.indexOf: the first position (from 0) of x, or -1.
IndexOf(seq, x) ==
    IF \E j \in 1 .. Len(seq) : seq[j] = x
    THEN (CHOOSE j \in 1 .. Len(seq) :
              seq[j] = x /\ \A h \in 1 .. j - 1 : seq[h] # x) - 1
    ELSE -1

NextTimeStep_NoWrap(steps, current) ==
    LET currentIndex == IndexOf(steps, current)
        nextIndex == IF currentIndex + 1 < Len(steps) THEN currentIndex + 1
                     ELSE currentIndex
    IN  steps[nextIndex + 1]

\* const currentIndex = timeSteps.indexOf(simulationTimeStep);
\* const nextIndex = (currentIndex + 1) % timeSteps.length;
NextTimeStep(steps, current) ==
    LET currentIndex == IndexOf(steps, current)
        nextIndex == (currentIndex + 1) % Len(steps)
    IN  steps[nextIndex + 1]

Remember(trail, value) ==
    IF Len(trail) < MaxTrail THEN Append(trail, value)
    ELSE Append(Tail(trail), value)

PanelMounted == activeView = "simulation"

TimerArmed_NoCleanup == isSimulationPlaying /\ simulationData # Null

\* The interval of the playback effect exists while the panel is mounted,
\* isPlaying is true and simulationData is present.
TimerArmed == PanelMounted /\ isSimulationPlaying /\ simulationData # Null

\* The interval callback of lines 47-51.
PlaybackTick ==
    /\ TimerArmed
    /\ simulationTimeStep' = NextTimeStep(simulationData.timeSteps, simulationTimeStep)
    /\ tickTrail' = Remember(tickTrail, simulationTimeStep')
    /\ UNCHANGED <<appVars, isSimulationPlaying, simulationSpeed, run, sideVars>>

\* Play / Pause: onPlayToggle(!isPlaying)
PlayToggle ==
    /\ PanelMounted /\ simulationData # Null
    /\ isSimulationPlaying' = ~isSimulationPlaying
    /\ tickTrail' = <<>>
    /\ UNCHANGED <<appVars, simulationTimeStep, simulationSpeed, run, sideVars>>

\* Reset: onTimeStepChange(simulationData.timeSteps[0])
ResetTimeStep ==
    /\ PanelMounted /\ simulationData # Null
    /\ simulationTimeStep' = simulationData.timeSteps[1]
    /\ tickTrail' = <<>>
    /\ UNCHANGED <<appVars, isSimulationPlaying, simulationSpeed, run, sideVars>>

\* A time-step button: onTimeStepChange(step)
PickTimeStep(j) ==
    /\ PanelMounted /\ simulationData # Null
    /\ j \in 1 .. Len(simulationData.timeSteps)
    /\ simulationTimeStep' = simulationData.timeSteps[j]
    /\ tickTrail' = <<>>
    /\ UNCHANGED <<appVars, isSimulationPlaying, simulationSpeed, run, sideVars>>

\* The speed slider: onSpeedChange(parseFloat(e.target.value))
ChangeSpeed(speed) ==
    /\ PanelMounted /\ simulationData # Null
    /\ speed # simulationSpeed
    /\ simulationSpeed' = speed
    /\ UNCHANGED <<appVars, simulationTimeStep, isSimulationPlaying, tickTrail,
                   run, sideVars>>

CompletedSteps ==
    [j \in 1 .. Len(InitialSteps) |->
        [InitialSteps[j] EXCEPT !.status = "completed", !.progress = ProgressLimit]]

\* The state in which a first run of handleRegionSelect has ended with a
\* usable response.
AfterFirstRun(region, data, seed, now) ==
    /\ activeView = "dashboard"
    /\ selectedRegion = region
    /\ isProcessing = FALSE
    /\ processingSteps = CompletedSteps
    /\ predictionData = MakePrediction(region, data, seed, now)
    /\ simulationData = MakeSimulation(region, data, seed, now)
    /\ run = << [pc |-> "done", region |-> region, i |-> Len(InitialSteps),
                 progress |-> ProgressLimit + ProgressIncrement,
                 steps |-> CompletedSteps, requests |-> 1,
                 solo |-> TRUE,
                 response |-> [resolved |-> TRUE, reason |-> "", data |-> data],
                 failed |-> FALSE] >>

\* Playback starts either from the initial state or after a first run.
InitPlayback ==
    /\ InitPlay /\ InitGenIdle /\ InitRiskAnalysis /\ InitExport /\ InitMap
    /\ \/ InitApp /\ InitRuns
       \/ \E region \in mockRegions :
             \E data \in {d \in PredictBodies(region) : ~Throws(d)} :
                 AfterFirstRun(region, data, <<0, 1>>, 86400123)

NextPlayback ==
    \/ \E view \in Views : Navigate(view)
    \/ PlaybackTick
    \/ PlayToggle
    \/ ResetTimeStep
    \/ \E j \in 1 .. Len(timeSteps) : PickTimeStep(j)
    \/ \E speed \in Speeds : ChangeSpeed(speed)

SpecPlayback == InitPlayback /\ [][NextPlayback]_vars

\* The cycle of the claim, written out.
CycleAfter(t) ==
    CASE t = 1 -> 2 [] t = 2 -> 3 [] t = 3 -> 6 [] t = 6 -> 12 [] t = 12 -> 1
      [] OTHER -> 0

\* C3: every timer tick moves simulationTimeStep to the next entry of
\* [1,2,3,6,12], from 12 back to 1; it fires only while isPlaying is true
\* and simulation data is present; so consecutive ticks run through the
\* cycle in order (from 1: 2, 3, 6, 12, 1).
C3_TickAdvancesCyclically ==
    /\ [][PlaybackTick =>
            /\ isSimulationPlaying /\ simulationData # Null
            /\ simulationTimeStep' = CycleAfter(simulationTimeStep)]_vars
    /\ [](\A n \in 2 .. Len(tickTrail) : tickTrail[n] = CycleAfter(tickTrail[n - 1]))

\* Playing from step 1, five consecutive ticks gave 2, 3, 6, 12 and 1.
C3_Witness ==
    /\ isSimulationPlaying
    /\ tickTrail = <<2, 3, 6, 12, 1>>
    /\ simulationTimeStep = 1

\* The timer has set the time step in this step: only a tick extends the
\* trail of tick values, every control empties it.
Ticked == tickTrail' # tickTrail /\ tickTrail' # <<>>

ControlPanelSlide_Hours(value) ==
    /\ simulationData # Null
    /\ simulationTimeStep' = value
    /\ tickTrail' = <<>>
    /\ UNCHANGED <<appVars, isSimulationPlaying, simulationSpeed, run, sideVars>>

\* ControlPanel, the range input (min 0, max 4):
\* onTimeStepChange([1, 2, 3, 6, 12][parseInt(e.target.value)]).  App mounts
\* no ControlPanel; the action is what the handler does when the component
\* is given the store's simulationData and setSimulationTimeStep, shown with
\* the simulation layer active.
ControlPanelSlide(value) ==
    /\ simulationData # Null
    /\ value \in 0 .. 4
    /\ simulationTimeStep' = timeSteps[value + 1]
    /\ tickTrail' = <<>>
    /\ UNCHANGED <<appVars, isSimulationPlaying, simulationSpeed, run, sideVars>>

\* ControlPanel, a time-step button: onTimeStepChange(step)
ControlPanelPick(step) ==
    /\ simulationData # Null
    /\ step \in TimeStepSet
    /\ simulationTimeStep' = step
    /\ tickTrail' = <<>>
    /\ UNCHANGED <<appVars, isSimulationPlaying, simulationSpeed, run, sideVars>>

\* Every way simulationTimeStep is set.
NextTimeStepControls ==
    \/ NextPlayback
    \/ \E value \in 0 .. 4 : ControlPanelSlide(value)
    \/ \E step \in TimeStepSet : ControlPanelPick(step)

SpecTimeStep == InitPlayback /\ [][NextTimeStepControls]_vars

\* C28: in every state simulationTimeStep is one of 1, 2, 3, 6, 12.
C28_TimeStepInSequence == simulationTimeStep \in {1, 2, 3, 6, 12}

\* The timer has ticked from 3 through 6 and 12 back to 1.
C28_Witness ==
    /\ isSimulationPlaying
    /\ tickTrail = <<6, 12, 1>>
    /\ simulationTimeStep = 1

\* Playback, and the selection of a region in between.
NextReselect ==
    \/ NextPlayback
    \/ \E region \in mockRegions : Start(region)

SpecReselect == InitPlayback /\ [][NextReselect]_vars

\* C25: when handleRegionSelect starts for a new region, simulationTimeStep
\* and isPlaying are back at their initial values, 1 and false.
C25_SelectionResetsPlayback ==
    [][Started => simulationTimeStep' = 1 /\ ~isSimulationPlaying']_vars

----------------------------------------------------------------------------
(* RiskAnalysis: the fetch effect of lines 23-59.  The component is        *)
(* mounted while activeView is "risk-analysis"; handleRegionSelect is      *)
(* reachable only from the region selector, so the effect's dependencies   *)
(* never change while an instance is mounted and the effect runs once per  *)
(* mount.  effects[e] is the e-th run of the effect:                       *)
(*   status  "none"      no region selected, nothing fetched               *)
(*           "fetching"  awaiting fetch(...)                               *)
(*           "reading"   awaiting res.json()                               *)
(*           "aborted"   controller.abort() called while it was awaiting;  *)
(*                       the AbortError rejection is still to be delivered *)
(*           "dropped"   the AbortError was caught                         *)
(*           "applied"   setLocalData(mapped) was called                   *)
(*           "failed"    setLocalData(null) was called by the catch block  *)
(*   live    the instance that ran the effect is still mounted             *)
(*   wrote   the number of setLocalData calls made by fetchPrediction      *)
(*           after its first await                                         *)
(*   result  the value of the last such call                               *)

MaxEffects == 3

\* a ?? b
NullishOr(a, b) == IF a.k \in {"null", "undefined"} THEN b ELSE a

FullPredictionBody ==
    [ok |-> Undefined,
     high_risk_area_km2 |-> Num(12000),
     moderate_risk_area_km2 |-> Num(23000),
     low_risk_area_km2 |-> Num(41000),
     confidence |-> Num(76000),
     timestamp |-> Str("1970-01-03T00:00:00.000Z"),
     overall_risk_level |-> Str("moderate")]

EmptyPredictionBody ==
    [ok |-> Undefined,
     high_risk_area_km2 |-> Undefined,
     moderate_risk_area_km2 |-> Undefined,
     low_risk_area_km2 |-> Undefined,
     confidence |-> Undefined,
     timestamp |-> Undefined,
     overall_risk_level |-> Undefined]

\* The bodies of GET /api/prediction tried: complete, empty ({}), and
\* {ok: false, detail}.
PredictionBodies ==
    {FullPredictionBody, EmptyPredictionBody,
     [EmptyPredictionBody EXCEPT !.ok = Bool(FALSE)]}

\* new Date(string), for the timestamps the bodies carry.
DateParse(str) ==
    CASE str = "1970-01-03T00:00:00.000Z" -> 172800000
      [] OTHER -> 0

\* const mapped: PredictionData = { ... } as any
MapPrediction(data, now) ==
    [highRiskArea |-> NullishOr(data.high_risk_area_km2, Num(0)),
     moderateRiskArea |-> NullishOr(data.moderate_risk_area_km2, Num(0)),
     lowRiskArea |-> NullishOr(data.low_risk_area_km2, Num(0)),
     confidence |-> IF data.confidence.k = "number" THEN data.confidence
                    ELSE Num(80000),
     timestamp |-> IF Truthy(data.timestamp)
                   THEN DateOf(DateParse(data.timestamp.v))
                   ELSE DateOf(now),
     overallRiskLevel |-> OrElse(data.overall_risk_level, Undefined)]

\* if (!res.ok || data.ok === false) throw new Error(...)
BodyRejected(resOk, data) == ~resOk \/ data.ok = Bool(FALSE)

Awaiting(effect) == effect.status \in {"fetching", "reading"}

Cleanup_NoAbort(effect) == [effect EXCEPT !.live = FALSE]

\* return () => controller.abort(), run when the instance unmounts: a fetch
\* that is still awaiting is rejected with an AbortError.
Cleanup(effect) ==
    [effect EXCEPT !.live = FALSE,
                   !.status = IF Awaiting(effect) THEN "aborted" ELSE @]

CatchHandles_Any(name) == TRUE

\* if ((e as any).name !== 'AbortError') { ...; setLocalData(null) }
CatchHandles(name) == name # "AbortError"

\* setLocalData(value) called by run e of the effect: the state of the
\* instance that ran it changes, if that instance is still the mounted one.
SetLocalData(e, value, status) ==
    /\ effects' = [effects EXCEPT ![e].status = status,
                                  ![e].wrote = @ + 1,
                                  ![e].result = value]
    /\ localData' = IF effects[e].live THEN value ELSE localData
    /\ chart' = IF pd' # pd THEN ChartEffect(chart, pd') ELSE chart

\* The catch block of lines 49-54, for an error of the given name.
Catch(e, name) ==
    IF CatchHandles(name)
    THEN SetLocalData(e, Null, "failed")
    ELSE /\ effects' = [effects EXCEPT ![e].status = "dropped"]
         /\ UNCHANGED <<localData, chart>>

FetchKey_First(region) == Dehradun.id

\* const region = selectedRegion.id || selectedRegion.name
FetchKey(region) == IF region.id # "" THEN region.id ELSE region.name

\* Sidebar: onViewChange('risk-analysis').  A new instance mounts with
\* localData = null and runs the effect: lines 24-30, or lines 31-35 up to
\* the await of fetch.
OpenRiskAnalysis ==
    /\ activeView # "risk-analysis"
    /\ Len(effects) < MaxEffects
    /\ activeView' = "risk-analysis"
    /\ localData' = Null
    /\ effects' = Append(effects,
          [region |-> FetchKey(selectedRegion),
           status |-> IF selectedRegion = NoRegion THEN "none" ELSE "fetching",
           resOk |-> FALSE,
           live |-> TRUE,
           wrote |-> 0,
           result |-> Null])
    /\ UNCHANGED <<selectedRegion, isProcessing, processingSteps, predictionData,
                   simulationData, playVars, run, genVars, exportVars>>
    /\ chart' = ChartMount(chart, pd')
    /\ MapFollows(activeView, "risk-analysis", FALSE)

\* Sidebar: onViewChange(view) away from Risk Analysis.  The instance
\* unmounts: the cleanup of its effect runs and its state is gone.
LeaveRiskAnalysis(view) ==
    /\ activeView = "risk-analysis"
    /\ view # "risk-analysis"
    /\ activeView' = view
    /\ effects' = [e \in 1 .. Len(effects) |->
                      IF effects[e].live THEN Cleanup(effects[e]) ELSE effects[e]]
    /\ localData' = Null
    /\ chart' = ChartUnmount(chart)
    /\ \E hasLeaflet \in BOOLEAN : MapFollows("risk-analysis", view, hasLeaflet)
    /\ UNCHANGED <<selectedRegion, isProcessing, processingSteps, predictionData,
                   simulationData, playVars, run, genVars, exportVars>>

\* fetch(...) has settled: with a response (of any status), up to the await
\* of res.json(), or with a transport error.
FetchSettled(e, responded, resOk) ==
    /\ e \in 1 .. Len(effects)
    /\ effects[e].status = "fetching"
    /\ UNCHANGED <<appVars, playVars, run, genVars, exportVars, mapVars>>
    /\ IF responded
       THEN /\ effects' = [effects EXCEPT ![e].status = "reading", ![e].resOk = resOk]
            /\ UNCHANGED <<localData, chart>>
       ELSE Catch(e, "TypeError")

\* res.json() has settled: with the parsed body (lines 37-48), or with a
\* SyntaxError when the body is not JSON.
BodySettled(e, isJson, data, now) ==
    /\ e \in 1 .. Len(effects)
    /\ effects[e].status = "reading"
    /\ UNCHANGED <<appVars, playVars, run, genVars, exportVars, mapVars>>
    /\ IF isJson /\ ~BodyRejected(effects[e].resOk, data)
       THEN SetLocalData(e, MapPrediction(data, now), "applied")
       ELSE Catch(e, IF isJson THEN "Error" ELSE "SyntaxError")

\* The rejection of an aborted fetch is delivered to fetchPrediction.
AbortDelivered(e) ==
    /\ e \in 1 .. Len(effects)
    /\ effects[e].status = "aborted"
    /\ UNCHANGED <<appVars, playVars, run, genVars, exportVars, mapVars>>
    /\ Catch(e, "AbortError")

\* The region selector is used while no run's timer has fired yet: the
\* continuations of handleRegionSelect are not part of this specification,
\* RiskAnalysis reads selectedRegion and predictionData only.
InitRiskAnalysisSpec ==
    /\ InitPlay /\ InitGenIdle /\ InitRiskAnalysis /\ InitExport /\ InitMap
    /\ \/ InitApp /\ InitRuns
       \/ AfterFirstRun(Shimla, FullBody(Shimla), <<0, 1>>, 86400123)

NextRiskAnalysis ==
    \/ Navigate("select-region")
    \/ Navigate("dashboard")
    \/ \E region \in mockRegions : Start(region)
    \/ OpenRiskAnalysis
    \/ \E view \in {"dashboard", "select-region"} : LeaveRiskAnalysis(view)
    \/ \E e \in 1 .. Len(effects) :
          \E responded, resOk \in BOOLEAN : FetchSettled(e, responded, resOk)
    \/ \E e \in 1 .. Len(effects) :
          \E isJson \in BOOLEAN, data \in PredictionBodies, now \in Times :
              BodySettled(e, isJson, data, now)
    \/ \E e \in 1 .. Len(effects) : AbortDelivered(e)

SpecRiskAnalysis == InitRiskAnalysisSpec /\ [][NextRiskAnalysis]_vars

\* C4: a fetch that has been superseded (its instance unmounted, the region
\* changed, a newer fetch issued) never calls setLocalData, however and
\* whenever it settles; no fetch writes twice; and once the newest fetch has
\* settled, localData is the one value it applied (its mapped data, or null
\* when it failed).
C4_AbortOnSupersede ==
    /\ [](\A e \in 1 .. Len(effects) :
            /\ effects[e].wrote <= 1
            /\ effects[e].status \in {"aborted", "dropped"} => effects[e].wrote = 0
            /\ (effects[e].live /\ effects[e].status \in {"applied", "failed"})
                  => effects[e].wrote = 1 /\ localData = effects[e].result
            /\ (e < Len(effects)) => ~effects[e].live /\ ~Awaiting(effects[e]))
    /\ [][\A e \in 1 .. Len(effects) :
            ~effects[e].live => effects'[e].wrote = effects[e].wrote]_vars

\* A first fetch was superseded while awaiting and has since been rejected;
\* the second fetch, for another region, has applied its data.
C4_Witness ==
    /\ Len(effects) >= 2
    /\ effects[1].status = "dropped" /\ effects[1].wrote = 0
    /\ effects[2].region # effects[1].region
    /\ effects[2].status = "applied" /\ effects[2].live
    /\ localData = effects[2].result /\ localData # Null

\* The fetch of the mounted instance has failed and was not aborted.
FetchFailed(e) == effects[e].live /\ effects[e].status = "failed"

\* C21, as stated: after a failed, non-aborted fetch the data the panel
\* displays (pd) is null.
C21_FailedFetchShowsPlaceholder ==
    \A e \in 1 .. Len(effects) : FetchFailed(e) => pd = Null

\* C21, amended: after a failed, non-aborted fetch localData is null and
\* stays null while the instance is mounted, and the panel displays the
\* predictionData of the store: pd is null exactly when that is null.
C21_FailedFetchFallsBackToStore ==
    /\ [](\A e \in 1 .. Len(effects) :
            FetchFailed(e) => /\ localData = Null
                              /\ pd = predictionData
                              /\ (pd = Null <=> predictionData = Null))
    /\ [][\A e \in 1 .. Len(effects) :
            (FetchFailed(e) /\ effects'[e].live) => localData' = Null]_vars

\* The store holds the prediction of a run on Shimla; the panel's own fetch
\* failed, and the panel displays the store's prediction.
C21_Witness ==
    /\ \E e \in 1 .. Len(effects) : FetchFailed(e)
    /\ localData = Null
    /\ predictionData # Null
    /\ pd # Null /\ pd.highRiskArea = Shimla.area * 2

\* C29: whenever localData is non-null it is the data the mounted instance
\* fetched for the region that is selected now; when the selected region
\* changes no fetched data is held.
C29_LocalDataForSelectedRegion ==
    /\ [](localData # Null =>
            \E e \in 1 .. Len(effects) :
                /\ effects[e].live /\ effects[e].status = "applied"
                /\ effects[e].region = selectedRegion.id
                /\ localData = effects[e].result)
    /\ [][selectedRegion' # selectedRegion =>
            /\ localData = Null /\ localData' = Null
            /\ \A e \in 1 .. Len(effects) : ~effects[e].live]_vars

\* The panel had fetched data for Shimla; Dehradun was then selected, and the
\* newly mounted panel holds the data it fetched for Dehradun.
C29_Witness ==
    /\ Len(effects) >= 2
    /\ effects[1].region = Shimla.id /\ effects[1].status = "applied"
    /\ selectedRegion = Dehradun
    /\ effects[2].region = Dehradun.id /\ effects[2].live
    /\ localData # Null /\ localData = effects[2].result

\* C23: every PredictionData the client holds has highRiskArea +
\* moderateRiskArea + lowRiskArea = totalArea: the one handleRegionSelect
\* stores (areas in tenths of a square km) and the one RiskAnalysis maps
\* from its response.
C23_AreasSumToTotal ==
    /\ predictionData # Null =>
          predictionData.highRiskArea + predictionData.moderateRiskArea
              + predictionData.lowRiskArea = predictionData.totalArea
    /\ localData # Null =>
          /\ "totalArea" \in DOMAIN localData
          /\ Num(localData.highRiskArea.v + localData.moderateRiskArea.v
                    + localData.lowRiskArea.v) = localData.totalArea

----------------------------------------------------------------------------
(* The Chart and map objects over the life of the views: Risk Analysis and *)
(* the map are opened and left, the panel's fetch settles, and the request *)
(* of a run settles while either view is open.                             *)

\* A run on the region has completed its steps and awaits its request.
AwaitingResponse(region) ==
    /\ activeView = "dashboard"
    /\ selectedRegion = region
    /\ isProcessing = TRUE
    /\ processingSteps = CompletedSteps
    /\ predictionData = Null
    /\ simulationData = Null
    /\ run = << [pc |-> "fetch", region |-> region, i |-> Len(InitialSteps),
                 progress |-> ProgressLimit + ProgressIncrement,
                 steps |-> CompletedSteps, requests |-> 1,
                 solo |-> TRUE,
                 response |-> Pending,
                 failed |-> FALSE] >>

InitViews ==
    /\ InitPlay /\ InitGenIdle /\ InitRiskAnalysis /\ InitExport /\ InitMap
    /\ \/ InitApp /\ InitRuns
       \/ AfterFirstRun(Shimla, FullBody(Shimla), <<0, 1>>, 86400123)
       \/ AwaitingResponse(Dehradun)

NextViews ==
    \/ \E view \in {"dashboard", "map"} : Navigate(view)
    \/ OpenRiskAnalysis
    \/ \E view \in {"dashboard", "map"} : LeaveRiskAnalysis(view)
    \/ \E e \in 1 .. Len(effects) :
          \E responded, resOk \in BOOLEAN : FetchSettled(e, responded, resOk)
    \/ \E e \in 1 .. Len(effects) :
          \E isJson \in BOOLEAN, data \in PredictionBodies :
              BodySettled(e, isJson, data, 86400123)
    \/ \E e \in 1 .. Len(effects) : AbortDelivered(e)
    \/ \E r \in 1 .. Len(run) :
          \E outcome \in PredictOutcomes(run[r].region) :
              PredictSettled(r, outcome, <<4, 3>>, 172800000)

SpecViews == InitViews /\ [][NextViews]_vars

\* At most one object is live, never more than one was, and the live one is
\* the one in the ref; none is live while the view is not mounted.
SingleInstance(instance, mounted) ==
    /\ Cardinality(instance.live) <= 1
    /\ instance.peak <= 1
    /\ instance.live \subseteq {instance.current}
    /\ ~mounted => instance.live = {}

\* C22: over mounts, changes of pd and unmounts, Risk Analysis has at most
\* one live Chart and the map view at most one live map; the old object is
\* destroyed before a new one is made, and none is live after the unmount.
C22_SingleLiveInstance ==
    /\ SingleInstance(chart, activeView = "risk-analysis")
    /\ SingleInstance(leafletMap, activeView = "map")

\* Risk Analysis is open, its chart was made for the store's prediction and
\* made again for the fetched data; the map view had been open before and
\* its map is gone.
C22_Witness ==
    /\ activeView = "risk-analysis"
    /\ predictionData # Null
    /\ \E e \in 1 .. Len(effects) : effects[e].live /\ effects[e].status = "applied"
    /\ chart.live = {chart.current} /\ chart.current # 0
    /\ leafletMap.peak = 1 /\ leafletMap.live = {}

----------------------------------------------------------------------------
(* MapVisualization: Point Analysis.  The click handler is put on the map  *)
(* by the init effect, which runs once per mount (deps []).  The popup's   *)
(* close button exists only while selectedPoint is set.                    *)

MaxClicks == 2

\* The places clicked (degrees * 10^5).
LatLngs == {<<3031650, 7803220>>, <<2861390, 7720900>>}

\* environmentalParams of App (part_000:29-33), in thousandths.
Temperature == 28000
Humidity == 45000
WindSpeed == 15000

\* base + (Math.random() - 0.5) * spread
Around(base, r, spread) == base + (r - 500) * spread

\* The object of setSelectedPoint: three draws, in source order.
MakeSelectedPoint(latlng, seed) ==
    [lat |-> latlng[1],
     lng |-> latlng[2],
     weather |-> [temperature |-> Around(Temperature, Random(seed, 0), 5),
                  humidity |-> Around(Humidity, Random(seed, 1), 10),
                  windSpeed |-> Around(WindSpeed, Random(seed, 2), 8)]]

\* The Point Analysis button: setIsDrawingMode(!isDrawingMode)
ToggleDrawingMode ==
    /\ activeView = "map"
    /\ selectedRegion # NoRegion
    /\ isDrawingMode' = ~isDrawingMode
    /\ UNCHANGED <<appVars, playVars, run, genVars, raVars, exportVars,
                   leafletMap, clickHandler, selectedPoint>>

\* A click on the map: the handler registered at line 156 runs.
MapClick(latlng, seed) ==
    /\ activeView = "map"
    /\ clickHandler.registered
    /\ clickHandler.clicks < MaxClicks
    /\ clickHandler' = [clickHandler EXCEPT !.clicks = @ + 1]
    /\ selectedPoint' = IF clickHandler.isDrawingMode
                        THEN MakeSelectedPoint(latlng, seed)
                        ELSE selectedPoint
    /\ UNCHANGED <<appVars, playVars, run, genVars, raVars, exportVars,
                   leafletMap, isDrawingMode>>

NextMap ==
    \/ \E view \in Views : Navigate(view)
    \/ ToggleDrawingMode
    \/ \E latlng \in LatLngs, seed \in Seeds : MapClick(latlng, seed)

SpecMap == InitPlayback /\ [][NextMap]_vars

\* The handler has been given a click in this step.
Clicked == clickHandler'.clicks = clickHandler.clicks + 1

\* C30: a click on the map sets selectedPoint exactly when isDrawingMode is
\* true at the time of the click; with the mode off the click leaves
\* selectedPoint as it was.
C30_ClickRecordsPointInDrawingMode ==
    [][Clicked => IF isDrawingMode
                  THEN selectedPoint' # Null
                  ELSE selectedPoint' = selectedPoint]_vars

----------------------------------------------------------------------------
(* Export.  JSON text is a sequence of tokens: the punctuation marks, the  *)
(* literals, and "space" for a line break followed by v blanks.  A string  *)
(* token carries the characters between its quotes.                        *)

\* A JavaScript object: its own enumerable keys in insertion order, and the
\* value of each.
JsObject(keys, fields) == [k |-> "object", keys |-> keys, v |-> fields]

Token(t, v) == [t |-> t, v |-> v]
Mark(t) == Token(t, 0)

Pad2(n) == IF n < 10 THEN "0" \o ToString(n) ELSE ToString(n)

Pad3(n) == IF n < 100 THEN "0" \o Pad2(n) ELSE ToString(n)

\* Date.prototype.toISOString, for the instants of January 1970.
toISOString(ms) ==
    LET day == ms \div 86400000
        inDay == ms % 86400000
        hours == inDay \div 3600000
        minutes == (inDay % 3600000) \div 60000
        seconds == (inDay % 60000) \div 1000
    IN  "1970-01-" \o Pad2(day + 1) \o "T" \o Pad2(hours) \o ":" \o Pad2(minutes)
            \o ":" \o Pad2(seconds) \o "." \o Pad3(ms % 1000) \o "Z"

\* new Date(string) for the strings toISOString gives on Times.
DateFromISO(str) ==
    CASE str = "1970-01-02T00:00:00.123Z" -> 86400123
      [] str = "1970-01-03T00:00:00.000Z" -> 172800000
      [] OTHER -> 0 - 1

Serializable_All(x) == TRUE

\* JSON.stringify leaves out a property whose value is undefined.
Serializable(x) == x.k # "undefined"

\* The line break and indentation JSON.stringify(value, null, indent) puts
\* before a member or element at the given depth.
Gap(indent, depth) ==
    IF indent = 0 THEN <<>> ELSE <<Token("space", indent * depth)>>

RECURSIVE Join(_, _, _)
\* parts[lo] \o ... \o parts[hi]
Join(parts, lo, hi) ==
    IF lo > hi THEN <<>>
    ELSE IF lo = hi THEN parts[lo]
    ELSE LET mid == (lo + hi) \div 2
         IN  Join(parts, lo, mid) \o Join(parts, mid + 1, hi)

RECURSIVE SerializeValue(_, _, _)
\* JSON.stringify(x, null, indent), for x at the given depth.
SerializeValue(x, indent, depth) ==
    LET Separator(n) == (IF n > 1 THEN <<Mark(",")>> ELSE <<>>) \o Gap(indent, depth + 1)
    IN  CASE x.k = "object" ->
                LET Kept(key) == Serializable(x.v[key])
                    kept == SelectSeq(x.keys, Kept)
                    members ==
                        [n \in 1 .. Len(kept) |->
                            Separator(n) \o <<Token("string", kept[n]), Mark(":")>>
                                \o SerializeValue(x.v[kept[n]], indent, depth + 1)]
                IN  IF kept = <<>> THEN <<Mark("{"), Mark("}")>>
                    ELSE <<Mark("{")>> \o Join(members, 1, Len(kept))
                            \o Gap(indent, depth) \o <<Mark("}")>>
          [] x.k = "array" ->
                LET elements ==
                        [n \in 1 .. Len(x.v) |->
                            Separator(n) \o SerializeValue(x.v[n], indent, depth + 1)]
                IN  IF x.v = <<>> THEN <<Mark("["), Mark("]")>>
                    ELSE <<Mark("[")>> \o Join(elements, 1, Len(x.v))
                            \o Gap(indent, depth) \o <<Mark("]")>>
          [] x.k = "date" -> <<Token("string", toISOString(x.v))>>
          [] x.k = "string" -> <<Token("string", x.v)>>
          [] x.k = "number" -> <<Token("number", x.v)>>
          [] x.k = "boolean" -> <<Mark(IF x.v = 1 THEN "true" ELSE "false")>>
          [] OTHER -> <<Mark("null")>>

JSONstringify(x, indent) == SerializeValue(x, indent, 0)

\* JSON.parse reads the tokens from left to right and keeps a stack of the
\* containers it is inside of; the bottom frame receives the whole value.
\* A frame of an object holds the key whose value is awaited.
Frame(kind) ==
    [kind |-> kind, keys |-> <<>>, fields |-> <<>>, elements |-> <<>>,
     awaits |-> FALSE, key |-> "", value |-> Null]

\* The value just read goes to the container on top of the stack.
AddValue(stack, value) ==
    LET top == stack[Len(stack)]
    IN  [stack EXCEPT ![Len(stack)] =
            CASE top.kind = "array" -> [top EXCEPT !.elements = Append(@, value)]
              [] top.kind = "object" ->
                    [top EXCEPT !.keys = Append(@, top.key),
                                !.fields = @ @@ (top.key :> value),
                                !.awaits = FALSE]
              [] OTHER -> [top EXCEPT !.value = value]]

ParseToken(stack, token) ==
    LET top == stack[Len(stack)]
        below == SubSeq(stack, 1, Len(stack) - 1)
    IN  CASE token.t \in {"space", ",", ":"} -> stack
          [] token.t = "{" -> Append(stack, Frame("object"))
          [] token.t = "[" -> Append(stack, Frame("array"))
          [] token.t = "}" -> AddValue(below, JsObject(top.keys, top.fields))
          [] token.t = "]" -> AddValue(below, Arr(top.elements))
          [] token.t = "string" ->
                IF top.kind = "object" /\ ~top.awaits
                THEN [stack EXCEPT ![Len(stack)] =
                        [top EXCEPT !.awaits = TRUE, !.key = token.v]]
                ELSE AddValue(stack, Str(token.v))
          [] token.t = "number" -> AddValue(stack, Num(token.v))
          [] token.t = "true" -> AddValue(stack, Bool(TRUE))
          [] token.t = "false" -> AddValue(stack, Bool(FALSE))
          [] OTHER -> AddValue(stack, Null)

RECURSIVE ParseTokens(_, _, _, _)
\* The stack after tokens[lo] .. tokens[hi] have been read in order, the
\* first half before the second.
ParseTokens(stack, tokens, lo, hi) ==
    IF lo > hi THEN stack
    ELSE IF lo = hi THEN ParseToken(stack, tokens[lo])
    ELSE LET mid == (lo + hi) \div 2
             read == ParseTokens(stack, tokens, lo, mid)
         IN  IF read = <<>> THEN read ELSE ParseTokens(read, tokens, mid + 1, hi)

JSONparse(tokens) == ParseTokens(<<Frame("top")>>, tokens, 1, Len(tokens))[1].value

Range(seq) == {seq[n] : n \in 1 .. Len(seq)}

Nums(seq) == Arr([n \in 1 .. Len(seq) |-> Num(seq[n])])

\* A RiskZone, a SpreadPoint, a PredictionData, a SimulationData and a Region
\* as the objects the handlers serialize.
ZoneValue(zone) ==
    JsObject(<<"id", "lat", "lng", "risk", "confidence">>,
             [id |-> Num(zone.id), lat |-> Num(zone.lat), lng |-> Num(zone.lng),
              risk |-> Str(zone.risk), confidence |-> Num(zone.confidence)])

PointValue(point) ==
    JsObject(<<"lat", "lng", "intensity", "timestamp">>,
             [lat |-> Num(point.lat), lng |-> Num(point.lng),
              intensity |-> Num(point.intensity),
              timestamp |-> Num(point.timestamp)])

PredictionKeys ==
    <<"region", "timestamp", "riskZones", "confidence", "totalArea",
      "highRiskArea", "moderateRiskArea", "lowRiskArea">>

PredictionValue(prediction) ==
    IF prediction = Null THEN Null
    ELSE LET zones == RiskZonesOf(prediction)
         IN  JsObject(PredictionKeys,
                [region |-> prediction.region,
                 timestamp |-> prediction.timestamp,
                 riskZones |-> Arr([n \in 1 .. Len(zones) |-> ZoneValue(zones[n])]),
                 confidence |-> prediction.confidence,
                 totalArea |-> Num(prediction.totalArea),
                 highRiskArea |-> Num(prediction.highRiskArea),
                 moderateRiskArea |-> Num(prediction.moderateRiskArea),
                 lowRiskArea |-> Num(prediction.lowRiskArea)])

SimulationKeys ==
    <<"region", "timestamp", "timeSteps", "spreadData", "totalBurnedArea",
      "spreadRate">>

RECURSIVE Ascending(_)
\* The elements of a set of numbers in ascending order: the order in which
\* an object enumerates its integer keys.
Ascending(S) ==
    IF S = {} THEN <<>>
    ELSE LET least == CHOOSE x \in S : \A y \in S : x <= y
         IN  <<least>> \o Ascending(S \ {least})

\* spreadData: { [key: number]: SpreadPoint[] }
SpreadValue(spread) ==
    LET ordered == Ascending(DOMAIN spread)
        names == [j \in 1 .. Len(ordered) |-> ToString(ordered[j])]
    IN  JsObject(names,
                 [name \in Range(names) |->
                     LET at == ordered[CHOOSE j \in 1 .. Len(names) : names[j] = name]
                     IN  Arr([n \in 1 .. Len(spread[at]) |-> PointValue(spread[at][n])])])

\* The sequences of the response, or the default arrays.
NumsIn(x) == IF x.k = "array" THEN Nums(x.v) ELSE x

SimulationValue(simulation) ==
    IF simulation = Null THEN Null
    ELSE JsObject(SimulationKeys,
            [region |-> simulation.region,
             timestamp |-> simulation.timestamp,
             timeSteps |-> Nums(simulation.timeSteps),
             spreadData |-> SpreadValue(SpreadDataOf(simulation)),
             totalBurnedArea |-> NumsIn(simulation.totalBurnedArea),
             spreadRate |-> NumsIn(simulation.spreadRate)])

\* Of a catalogue entry the model carries id, name, area and bounds.center.
RegionValue(region) ==
    IF region = NoRegion THEN Null
    ELSE JsObject(<<"id", "name", "area", "bounds">>,
            [id |-> Str(region.id), name |-> Str(region.name),
             area |-> Num(region.area * 10),
             bounds |-> JsObject(<<"center">>, [center |-> Nums(region.center)])])

\* The switch of DownloadReports.handleDownload.
DownloadData(type) ==
    CASE type = "prediction" -> PredictionValue(predictionData)
      [] type = "simulation" -> SimulationValue(simulationData)
      [] type = "report" ->
            JsObject(<<"prediction", "simulation", "region">>,
                     [prediction |-> PredictionValue(predictionData),
                      simulation |-> SimulationValue(simulationData),
                      region |-> RegionValue(selectedRegion)])
      [] OTHER -> JsObject(<<>>, <<>>)

\* The buttons of DownloadReports: category.category.toLowerCase()
\* .split(' ')[0] with the item's format and availability, and the two bulk
\* buttons.
DownloadButtons ==
    {[type |-> "prediction", format |-> f, available |-> predictionData # Null] :
        f \in {"tiff", "shp", "json"}}
    \cup {[type |-> "simulation", format |-> f, available |-> simulationData # Null] :
        f \in {"mp4", "zip", "json"}}
    \cup {[type |-> "reports", format |-> "pdf",
           available |-> predictionData # Null \/ simulationData # Null]}
    \cup {[type |-> t, format |-> f,
           available |-> predictionData # Null \/ simulationData # Null] :
        <<t, f>> \in {<<"all", "zip">>, <<"report", "pdf">>}}

\* DownloadReports.handleDownload(type, format) at the instant now.  download
\* is the file the browser saves; parsed is what a reader of that file has
\* got from it, nothing as long as the file is new.
handleDownload(button, now) ==
    /\ activeView = "download"
    /\ button \in DownloadButtons
    /\ button.available
    /\ LET data == DownloadData(button.type)
       IN  download' =
              [filename |-> button.type \o "_"
                              \o (IF selectedRegion.name # "" THEN selectedRegion.name
                                  ELSE "region")
                              \o "_" \o ToString(now) \o "." \o button.format,
               handler |-> "DownloadReports",
               type |-> button.type,
               data |-> data,
               content |-> JSONstringify(data, 2)]
    /\ parsed' = Null
    /\ UNCHANGED <<appVars, playVars, run, genVars, raVars, mapVars>>

\* ControlPanel.handleDownload(type) at the instant now.  App mounts no
\* ControlPanel; the action is what the handler does when the component is
\* given the store's predictionData and simulationData, as its props are
\* declared.
ControlPanelDownload(type, now) ==
    /\ type \in {"prediction", "simulation"}
    /\ IF type = "prediction" THEN predictionData # Null ELSE simulationData # Null
    /\ LET data ==
              JsObject(<<"type", "data">>,
                       [type |-> Str(type),
                        data |-> IF type = "prediction"
                                 THEN PredictionValue(predictionData)
                                 ELSE SimulationValue(simulationData)])
       IN  download' =
              [filename |-> type \o "_" \o ToString(now) \o ".json",
               handler |-> "ControlPanel",
               type |-> type,
               data |-> data,
               content |-> JSONstringify(data, 0)]
    /\ parsed' = Null
    /\ UNCHANGED <<appVars, playVars, run, genVars, raVars, mapVars>>

\* The downloaded file is read back with JSON.parse.
ParseDownload ==
    /\ download # NoDownload
    /\ parsed' = [of |-> download.filename, value |-> JSONparse(download.content)]
    /\ UNCHANGED <<appVars, playVars, run, genVars, raVars, download, mapVars>>

\* Exports start from the initial state or after a first run: with a complete
\* response, with a response without region, with the default confidence, and
\* with another region, random stream and instant.
InitExportSpec ==
    /\ InitPlay /\ InitGenIdle /\ InitRiskAnalysis /\ InitExport /\ InitMap
    /\ \/ InitApp /\ InitRuns
       \/ \E data \in {FullBody(Dehradun),
                        [FullBody(Dehradun) EXCEPT !.region = Undefined],
                        [FullBody(Dehradun) EXCEPT
                            !.fire_prediction = Obj([confidence |-> Num(0)])]} :
             AfterFirstRun(Dehradun, data, <<4, 3>>, 86400123)
       \/ AfterFirstRun(Shimla, FullBody(Shimla), <<0, 1>>, 172800000)

NextExport ==
    \/ Navigate("download")
    \/ Navigate("dashboard")
    \/ \E button \in DownloadButtons, now \in Times : handleDownload(button, now)
    \/ \E type \in {"prediction", "simulation"}, now \in Times :
          ControlPanelDownload(type, now)
    \/ ParseDownload

SpecExport == InitExportSpec /\ [][NextExport]_vars

RECURSIVE StructurallyIdentical(_, _)
\* a and b have the same kind and, field for field or element for element,
\* structurally identical parts.
StructurallyIdentical(a, b) ==
    /\ a.k = b.k
    /\ CASE a.k = "object" ->
              /\ Range(a.keys) = Range(b.keys)
              /\ \A key \in Range(a.keys) : StructurallyIdentical(a.v[key], b.v[key])
         [] a.k = "array" ->
              /\ Len(a.v) = Len(b.v)
              /\ \A n \in 1 .. Len(a.v) : StructurallyIdentical(a.v[n], b.v[n])
         [] OTHER -> a.v = b.v

\* The download has been read back.
ReadBack == download # NoDownload /\ parsed # Null /\ parsed.of = download.filename

\* The PredictionData a download serialized and what came back for it.
ExportedPrediction ==
    IF download.handler = "ControlPanel" THEN download.data.v.data ELSE download.data

ParsedPrediction ==
    IF download.handler = "ControlPanel" THEN parsed.value.v.data ELSE parsed.value

\* C10 as stated: a prediction export read back is structurally identical
\* to the PredictionData exported, the timestamp field included.
C10_RoundTripIdentical ==
    (ReadBack /\ download.type = "prediction")
        => StructurallyIdentical(ExportedPrediction, ParsedPrediction)

\* C10 amended: a prediction export read back has the fields of the
\* PredictionData exported whose value is not undefined; each of them other
\* than timestamp is structurally identical to the original; timestamp comes
\* back as a string, the ISO-8601 text of the same instant, where the original
\* is a Date.
C10_RoundTripUpToDateAndUndefined ==
    (ReadBack /\ download.type = "prediction") =>
        LET original == ExportedPrediction
            copy == ParsedPrediction
            defined == {key \in Range(original.keys) : original.v[key].k # "undefined"}
        IN  /\ copy.k = "object"
            /\ Range(copy.keys) = defined
            /\ \A key \in defined \ {"timestamp"} :
                  StructurallyIdentical(original.v[key], copy.v[key])
            /\ original.v.timestamp.k = "date"
            /\ copy.v.timestamp.k = "string"
            /\ DateFromISO(copy.v.timestamp.v) = original.v.timestamp.v

\* A prediction whose region is undefined was downloaded from DownloadReports
\* and read back: region is gone and timestamp is a string.
C10_Witness ==
    /\ ReadBack /\ download.type = "prediction"
    /\ download.handler = "DownloadReports"
    /\ predictionData # Null
    /\ predictionData.region = Undefined
    /\ Len(ParsedPrediction.v.riskZones.v) = NumZones
    /\ "region" \notin Range(ParsedPrediction.keys)
    /\ ParsedPrediction.v.timestamp = Str("1970-01-02T00:00:00.123Z")

\* The object has the given keys, in order.
ObjectWith(value, keys) == value.k = "object" /\ value.keys = keys

\* C24: a download of DownloadReports from the 'Prediction Data' category
\* holds predictionData, one from 'Simulation Data' holds simulationData, one
\* from 'Reports' or from the bulk report button holds the report object
\* {prediction, simulation, region}; no download holds the empty object {}.
C24_DownloadsHoldMatchingData ==
    download.handler = "DownloadReports" =>
        /\ download.type = "prediction"
              => download.data = PredictionValue(predictionData)
        /\ download.type = "simulation"
              => download.data = SimulationValue(simulationData)
        /\ download.type \in {"reports", "report"}
              => ObjectWith(download.data, <<"prediction", "simulation", "region">>)
        /\ ~ObjectWith(download.data, <<>>)

----------------------------------------------------------------------------
(* The generators on their own: every region and stream, each generator    *)
(* applied to it.                                                          *)

InitGen ==
    /\ InitApp /\ InitPlay /\ InitRuns /\ InitRiskAnalysis /\ InitExport /\ InitMap
    /\ mockIn \in [region : mockRegions, seed : Seeds]
    /\ riskZones = NotCalled
    /\ spreadData = NotCalled

CallRiskZones ==
    /\ riskZones' = [done |-> TRUE,
                     value |-> generateMockRiskZones(mockIn.region, mockIn.seed)]
    /\ UNCHANGED <<appVars, playVars, run, mockIn, spreadData, raVars, exportVars,
                   mapVars>>

CallSpreadData ==
    /\ spreadData' = [done |-> TRUE,
                      value |-> generateMockSpreadData(mockIn.region, mockIn.seed)]
    /\ UNCHANGED <<appVars, playVars, run, mockIn, riskZones, raVars, exportVars,
                   mapVars>>

NextGen == CallRiskZones \/ CallSpreadData

SpecGen == InitGen /\ [][NextGen]_vars

\* C6: every invocation of generateMockRiskZones returns exactly 25 zones,
\* with ids 0..24 in order.
C6_ExactlyTwentyFiveZones ==
    riskZones.done =>
        /\ Len(riskZones.value) = 25
        /\ \A j \in 1 .. 25 : riskZones.value[j].id = j - 1

\* A batch has been generated from a stream whose draws differ (b # 0).
C6_Witness ==
    /\ riskZones.done
    /\ mockIn.seed[2] # 0
    /\ Len(riskZones.value) > 0

\* C7: the risk category of zone i is the bucket of its generating draw r
\* (the first of the four draws of iteration i) and of nothing else:
\* high iff r > 0.6, moderate iff 0.3 < r <= 0.6, low iff r <= 0.3.
C7_RiskIsThresholdBucket ==
    riskZones.done =>
        \A j \in 1 .. Len(riskZones.value) :
            LET r == Random(mockIn.seed, 4 * (j - 1))
                z == riskZones.value[j]
            IN  /\ z.risk \in {"high", "moderate", "low"}
                /\ (z.risk = "high") <=> (r > 600)
                /\ (z.risk = "moderate") <=> (r > 300 /\ r <= 600)
                /\ (z.risk = "low") <=> (r <= 300)

\* A batch in which the boundary draws 0.6 and 0.3 and all three buckets occur.
C7_Witness ==
    /\ riskZones.done
    /\ \E j \in 1 .. Len(riskZones.value) :
          Random(mockIn.seed, 4 * (j - 1)) = 600 /\ riskZones.value[j].risk = "moderate"
    /\ \E j \in 1 .. Len(riskZones.value) :
          Random(mockIn.seed, 4 * (j - 1)) = 300 /\ riskZones.value[j].risk = "low"
    /\ \E j \in 1 .. Len(riskZones.value) : riskZones.value[j].risk = "high"

\* C8: generateMockSpreadData returns a mapping whose keys are exactly
\* {1,2,3,6,12}; the list for t has 6*t points, each with timestamp t.
C8_SpreadShape ==
    spreadData.done =>
        /\ DOMAIN spreadData.value = {1, 2, 3, 6, 12}
        /\ \A t \in DOMAIN spreadData.value :
              /\ Len(spreadData.value[t]) = 6 * t
              /\ \A n \in 1 .. Len(spreadData.value[t]) :
                    spreadData.value[t][n].timestamp = t

\* A mapping has been generated and its last list holds 72 points.
C8_Witness ==
    /\ spreadData.done
    /\ 12 \in DOMAIN spreadData.value
    /\ Len(spreadData.value[12]) = 72

\* C9: every generated zone has confidence in [0.65, 1.0] and every
\* generated spread point has intensity in [0.2, 1.0] (units of 1e-5).
C9_ConfidenceAndIntensityRanges ==
    /\ riskZones.done =>
          \A j \in 1 .. Len(riskZones.value) :
              /\ riskZones.value[j].confidence >= 65000
              /\ riskZones.value[j].confidence <= 100000
    /\ spreadData.done =>
          \A t \in DOMAIN spreadData.value :
              \A n \in 1 .. Len(spreadData.value[t]) :
                  /\ spreadData.value[t][n].intensity >= 20000
                  /\ spreadData.value[t][n].intensity <= 100000

\* Both generators ran on a stream holding the smallest and the largest draw,
\* and both ends of each range were approached.
C9_Witness ==
    /\ riskZones.done /\ spreadData.done
    /\ \E j \in 1 .. Len(riskZones.value) : riskZones.value[j].confidence = 65000
    /\ \E j \in 1 .. Len(riskZones.value) : riskZones.value[j].confidence > 99900
    /\ \E n \in 1 .. Len(spreadData.value[1]) : spreadData.value[1][n].intensity = 20000
    /\ \E n \in 1 .. Len(spreadData.value[12]) : spreadData.value[12][n].intensity > 99900

====
